---------------------------- MODULE Spec2Model ----------------------------
(***************************************************************************)
(* Model of src/utils/chembl_data_processing.py: the cache loader, the     *)
(* table cleaner, the structure flattener and the pipeline that merges     *)
(* the bioactivity and the compound tables.                                *)
(*                                                                         *)
(* A table is [columns, index, rows]: the set of column names, the row     *)
(* labels (pandas' index) and the rows, each a function from the column    *)
(* names to cells.  A cell is [t, v]: t is "na" (None / NaN), "str" (text),*)
(* "num" (float64, v its repr) or "dict" (a mapping with the key           *)
(* canonical_smiles, v its value, NoneText standing for None).             *)
(***************************************************************************)
EXTENDS Integers, Sequences, FiniteSets, TLC

VARIABLES
    disk,      \* the storage: [dir, files]; files maps a query name to the cache file
    remote,    \* the remote collaborator: per query name [up, records]
    ncalls,    \* number of cache loader calls made so far
    out,       \* the last cache loader call: arguments, outcome, whether the remote was invoked
    prev,      \* the cache loader call before the last
    cleaned,   \* the last table cleaner call: input, arguments, outcome, counts reported
    flat,      \* the last structure flattener call: input and outcome
    pipe       \* the last pipeline call: the two cleaned tables, the merged table, the outcome

vars == <<disk, remote, ncalls, out, prev, cleaned, flat, pipe>>

----------------------------------------------------------------------------
(* Bounds of the model.                                                    *)

MaxCalls == 3
MaxRows == 3
MaxFlatRows == 3
MaxRecords == 2

----------------------------------------------------------------------------
(* Cells.                                                                  *)

NoneText == "None"

NA == [t |-> "na", v |-> ""]
Str(s) == [t |-> "str", v |-> s]
Num(s) == [t |-> "num", v |-> s]
Dict(s) == [t |-> "dict", v |-> s]

IsNA(c) == c.t = "na"

\* float(text): the text forms of floats the model uses and the float each denotes
IntTexts == {ToString(i) : i \in 0..9}

FloatTexts == {"3.0", "5.0", "7.0"}

FloatOf == [s \in FloatTexts \cup IntTexts |-> IF s \in IntTexts THEN s \o ".0" ELSE s]

IsNumericText(s) == s \in DOMAIN FloatOf

\* str(mapping): the text of a mapping {'canonical_smiles': ...}
Smiles == {"CCO", "CCN", NoneText}

ReprDict(s) ==
    "{'canonical_smiles': " \o (IF s = NoneText THEN "None" ELSE "'" \o s \o "'") \o "}"

\* ast.literal_eval on a cell: text of a mapping parses to the mapping, anything
\* else is malformed (ok = FALSE)
LiteralEval(c) ==
    IF c.t = "str" /\ \E s \in Smiles : ReprDict(s) = c.v
    THEN [ok |-> TRUE, cell |-> Dict(CHOOSE s \in Smiles : ReprDict(s) = c.v)]
    ELSE [ok |-> FALSE, cell |-> NA]

----------------------------------------------------------------------------
(* Tables and the outcome of an operation that may raise.                  *)

NoTable == [columns |-> {}, index |-> <<>>, rows |-> <<>>]

Ok(df) == [ok |-> TRUE, error |-> "", df |-> df]
Raise(e) == [ok |-> FALSE, error |-> e, df |-> NoTable]

Nrows(df) == Len(df.rows)

RangeIndex(n) == [i \in 1..n |-> i - 1]

\* the positions i..n that are in keep, in order
RECURSIVE Positions(_, _, _)
Positions(n, keep, i) ==
    IF i > n THEN <<>>
    ELSE (IF i \in keep THEN <<i>> ELSE <<>>) \o Positions(n, keep, i + 1)

\* df restricted to the rows at positions ps (labels kept)
Take(df, ps) ==
    [columns |-> df.columns,
     index |-> [k \in 1..Len(ps) |-> df.index[ps[k]]],
     rows |-> [k \in 1..Len(ps) |-> df.rows[ps[k]]]]

RowHasNA(row) == \E c \in DOMAIN row : IsNA(row[c])

\* pd.DataFrame.from_records(records): the columns are the records' keys, a key a
\* record lacks is missing in its row, the index is 0..n-1
FromRecords(records) ==
    LET cols == UNION {DOMAIN records[i] : i \in 1..Len(records)}
    IN [columns |-> cols,
        index |-> RangeIndex(Len(records)),
        rows |-> [i \in 1..Len(records) |->
                    [c \in cols |-> IF c \in DOMAIN records[i] THEN records[i][c] ELSE NA]]]

----------------------------------------------------------------------------
(* The cache file: a CSV text, [kind, header, lines].  kind is "absent",    *)
(* "csv" or "empty" (a zero-byte file); header is the set of column names, *)
(* "" the one of the index column; a line maps each name to a field text.  *)

NoFile == [kind |-> "absent", header |-> {}, lines |-> <<>>]
EmptyFile == [kind |-> "empty", header |-> {}, lines |-> <<>>]

\* the text to_csv writes for a cell: nothing for a missing value, str() otherwise
CellText(c) ==
    CASE c.t = "na" -> ""
      [] c.t = "dict" -> ReprDict(c.v)
      [] OTHER -> c.v

\* df.to_csv(path): the index is written as a first column with an empty name
ToCsv(df) ==
    LET header == {""} \cup df.columns
    IN [kind |-> "csv",
        header |-> header,
        lines |-> [i \in 1..Nrows(df) |->
                     [h \in header |-> IF h = "" THEN ToString(df.index[i])
                                       ELSE CellText(df.rows[i][h])]]]

ColumnName(h) == IF h = "" THEN "Unnamed: 0" ELSE h

HeaderOf(c) == IF c = "Unnamed: 0" THEN "" ELSE c

\* pd.read_csv(path) on a readable file: an unnamed column is named "Unnamed: 0",
\* an empty field is missing, a column of integers is int64 (v the integer's text),
\* a column all of whose fields are numbers or empty is float64, any other column
\* holds its fields as text
ParseCsv(file) ==
    LET n == Len(file.lines)
        numeric(h) == \A i \in 1..n : file.lines[i][h] = "" \/ IsNumericText(file.lines[i][h])
        integer(h) == \A i \in 1..n : file.lines[i][h] \in IntTexts
        cell(h, s) == IF s = "" THEN NA
                      ELSE IF integer(h) THEN Num(s)
                      ELSE IF numeric(h) THEN Num(FloatOf[s]) ELSE Str(s)
        cols == {ColumnName(h) : h \in file.header}
    IN [columns |-> cols,
        index |-> RangeIndex(n),
        rows |-> [i \in 1..n |-> [c \in cols |-> cell(HeaderOf(c), file.lines[i][HeaderOf(c)])]]]

ReadCsv(file) ==
    CASE file.kind = "absent" -> Raise("FileNotFoundError")
      [] file.kind = "empty" -> Raise("EmptyDataError")
      [] OTHER -> Ok(ParseCsv(file))

\* df.drop([col], axis=1)
DropColumn(df, col) ==
    IF col \notin df.columns THEN Raise("KeyError")
    ELSE Ok([columns |-> df.columns \ {col},
             index |-> df.index,
             rows |-> [i \in 1..Nrows(df) |-> [c \in df.columns \ {col} |-> df.rows[i][c]]]])


----------------------------------------------------------------------------
(* retrieve_or_create_dataframe_from_query                                 *)

QueryNames == {"bioactivities", "compounds"}
TargetNames == {"EGFR"}

\* os.path.join(data_path, f"{target_name}_{query_name}.csv"), within data_path
DataFilePath(target_name, query_name) == target_name \o "_" \o query_name \o ".csv"

Paths == {DataFilePath(t, q) : t \in TargetNames, q \in QueryNames}

EmptyDisk(dir) == [dir |-> dir, files |-> [p \in Paths |-> NoFile]]

\* the file at a path of the storage; nothing is found in a directory that
\* does not exist
FileAt(dsk, path) == IF dsk.dir THEN dsk.files[path] ELSE NoFile

\* the table the try block yields from a file: read_csv, then the index column
\* of the earlier save is dropped
LoadSaved(file) ==
    LET read == ReadCsv(file)
    IN IF read.ok THEN DropColumn(read.df, "Unnamed: 0") ELSE read

\* pd.DataFrame.from_records(query): iterating the query raises when the remote
\* collaborator fails
Fetch(query) ==
    IF query.up THEN Ok(FromRecords(query.records)) ELSE Raise("RemoteError")

\* SaveDf with the to_csv call forgotten: the directory is made, no file written
SaveDfNoWrite(dsk, path, df) == [dir |-> TRUE, files |-> dsk.files]

\* os.mkdir(data_path) when it does not exist, then df.to_csv(data_file_path)
SaveDf(dsk, path, df) ==
    [dir |-> TRUE, files |-> [dsk.files EXCEPT ![path] = ToCsv(df)]]

\* RetrieveOrCreate that refreshes the cache: it fetches whenever the remote
\* collaborator answers and reads the file only when it does not
RetrieveOrCreateRefresh(dsk, query, query_name, target_name, save_df) ==
    LET data_file_path == DataFilePath(target_name, query_name)
        loaded == LoadSaved(FileAt(dsk, data_file_path))
        fetched == Fetch(query)
    IN IF ~fetched.ok /\ (loaded.ok \/ loaded.error # "FileNotFoundError")
       THEN [res |-> loaded, invoked |-> TRUE, disk |-> dsk]
       ELSE [res |-> fetched,
             invoked |-> TRUE,
             disk |-> IF fetched.ok /\ save_df
                      THEN SaveDf(dsk, data_file_path, fetched.df)
                      ELSE dsk]

\* RetrieveOrCreate with a bare except: any failure of the try block takes the
\* fetch path
RetrieveOrCreateBareExcept(dsk, query, query_name, target_name, save_df) ==
    LET data_file_path == DataFilePath(target_name, query_name)
        loaded == LoadSaved(FileAt(dsk, data_file_path))
        fetched == Fetch(query)
    IN IF loaded.ok
       THEN [res |-> loaded, invoked |-> FALSE, disk |-> dsk]
       ELSE [res |-> fetched,
             invoked |-> TRUE,
             disk |-> IF fetched.ok /\ save_df
                      THEN SaveDf(dsk, data_file_path, fetched.df)
                      ELSE dsk]

\* the whole function: [res, invoked, disk], res the returned table or the
\* exception that leaves the function, invoked whether the query was run
RetrieveOrCreate(dsk, query, query_name, target_name, save_df) ==
    LET data_file_path == DataFilePath(target_name, query_name)
        loaded == LoadSaved(FileAt(dsk, data_file_path))
        fetched == Fetch(query)
    IN IF loaded.ok \/ loaded.error # "FileNotFoundError"
       THEN [res |-> loaded, invoked |-> FALSE, disk |-> dsk]
       ELSE [res |-> fetched,
             invoked |-> TRUE,
             disk |-> IF fetched.ok /\ save_df
                      THEN SaveDf(dsk, data_file_path, fetched.df)
                      ELSE dsk]

----------------------------------------------------------------------------
(* The record sets the remote collaborator returns in the cache loader's   *)
(* specifications.                                                         *)

BioRecord(id, value, units) ==
    [molecule_chembl_id |-> id, standard_value |-> value, standard_units |-> units]

CompoundRecord(id, structures) ==
    [molecule_chembl_id |-> id, molecule_structures |-> structures]

RemoteRecordSets(query_name) ==
    IF query_name = "bioactivities"
    THEN {<<>>,
          <<BioRecord(Str("CHEMBL1"), NA, Str("nM"))>>,
          <<BioRecord(Str("CHEMBL1"), Str("5.0"), Str("nM")),
            BioRecord(Str("CHEMBL2"), Str("7"), Str("uM"))>>}
    ELSE {<<CompoundRecord(Str("CHEMBL1"), Dict("CCO"))>>,
          <<CompoundRecord(Str("CHEMBL1"), Dict("CCO")),
            CompoundRecord(Str("CHEMBL2"), NA)>>}

\* a file some other program left in the storage: a CSV saved without an index
\* column
ForeignCsv ==
    [kind |-> "csv",
     header |-> {"molecule_chembl_id"},
     lines |-> <<[molecule_chembl_id |-> "CHEMBL1"]>>]

NoCall ==
    [n |-> 0, query_name |-> "", save_df |-> FALSE,
     snapshot |-> [up |-> TRUE, records |-> <<>>],
     exists |-> FALSE, invoked |-> FALSE, res |-> Raise("")]

NoClean == [called |-> FALSE]
NoFlat == [called |-> FALSE]
NoPipe == [called |-> FALSE]

----------------------------------------------------------------------------
(* The cache loader called again and again while the remote collaborator   *)
(* changes its records and goes down and up.                               *)

InitRemote ==
    remote \in [QueryNames -> [up : {TRUE}, records : UNION {RemoteRecordSets(q) : q \in QueryNames}]]
    /\ \A q \in QueryNames : remote[q].records \in RemoteRecordSets(q)

InitCache ==
    /\ disk \in {EmptyDisk(FALSE), EmptyDisk(TRUE)}
    /\ InitRemote
    /\ ncalls = 0
    /\ out = NoCall
    /\ prev = NoCall
    /\ cleaned = NoClean
    /\ flat = NoFlat
    /\ pipe = NoPipe

\* the storage may hold files this program did not write
InitStore ==
    /\ disk \in [dir : {TRUE}, files : [Paths -> {NoFile, EmptyFile, ForeignCsv}]]
                \cup {EmptyDisk(FALSE)}
    /\ InitRemote
    /\ ncalls = 0
    /\ out = NoCall
    /\ prev = NoCall
    /\ cleaned = NoClean
    /\ flat = NoFlat
    /\ pipe = NoPipe

\* one call of retrieve_or_create_dataframe_from_query
Retrieve(query_name, target_name, save_df) ==
    LET r == RetrieveOrCreate(disk, remote[query_name], query_name, target_name, save_df)
    IN /\ ncalls < MaxCalls
       /\ ncalls' = ncalls + 1
       /\ disk' = r.disk
       /\ out' = [n |-> ncalls + 1, query_name |-> query_name, save_df |-> save_df,
                  snapshot |-> remote[query_name],
                  exists |-> FileAt(disk, DataFilePath(target_name, query_name)).kind # "absent",
                  invoked |-> r.invoked, res |-> r.res]
       /\ prev' = out
       /\ UNCHANGED <<remote, cleaned, flat, pipe>>

\* the remote collaborator's records change
RemoteChange(query_name, records) ==
    /\ records # remote[query_name].records
    /\ remote' = [remote EXCEPT ![query_name].records = records]
    /\ UNCHANGED <<disk, ncalls, out, prev, cleaned, flat, pipe>>

\* the remote collaborator goes down or comes back
RemoteToggle(query_name) ==
    /\ remote' = [remote EXCEPT ![query_name].up = ~remote[query_name].up]
    /\ UNCHANGED <<disk, ncalls, out, prev, cleaned, flat, pipe>>

NextCache ==
    \/ \E q \in QueryNames, t \in TargetNames, s \in BOOLEAN : Retrieve(q, t, s)
    \/ \E q \in QueryNames : \E rs \in RemoteRecordSets(q) : RemoteChange(q, rs)
    \/ \E q \in QueryNames : RemoteToggle(q)

SpecCache == InitCache /\ [][NextCache]_vars

SpecStore == InitStore /\ [][NextCache]_vars


----------------------------------------------------------------------------
(* preprocess_queried_dataset                                              *)

\* an optional argument: None, or a value
None == [some |-> FALSE, val |-> ""]
Some(v) == [some |-> TRUE, val |-> v]

\* float64 of a cell: a number stays, numeric text is parsed, a missing value
\* stays missing, anything else cannot be converted
ToFloat(c) ==
    CASE c.t = "num" -> [ok |-> TRUE, cell |-> c]
      [] c.t = "na" -> [ok |-> TRUE, cell |-> NA]
      [] c.t = "str" /\ IsNumericText(c.v) -> [ok |-> TRUE, cell |-> Num(FloatOf[c.v])]
      [] OTHER -> [ok |-> FALSE, cell |-> NA]

\* df.astype({column: "float64" for column in columns})
AsType(df, columns) ==
    IF ~(columns \subseteq df.columns) THEN Raise("KeyError")
    ELSE IF \E i \in 1..Nrows(df) : \E c \in columns : ~ToFloat(df.rows[i][c]).ok
    THEN Raise("ValueError")
    ELSE Ok([df EXCEPT !.rows =
                [i \in 1..Nrows(df) |->
                    [c \in df.columns |-> IF c \in columns THEN ToFloat(df.rows[i][c]).cell
                                          ELSE df.rows[i][c]]]])

\* df.dropna(axis=0, how="any")
DropNa(df) == Take(df, Positions(Nrows(df), {i \in 1..Nrows(df) : ~RowHasNA(df.rows[i])}, 1))

\* FilterUnit with the comparison negated
FilterUnitNegated(df, standard_unit) ==
    Take(df, Positions(Nrows(df),
                   {i \in 1..Nrows(df) : df.rows[i]["standard_units"] # Str(standard_unit)}, 1))

\* df[df["standard_units"] == standard_unit]
FilterUnit(df, standard_unit) ==
    Take(df, Positions(Nrows(df),
                   {i \in 1..Nrows(df) : df.rows[i]["standard_units"] = Str(standard_unit)}, 1))

\* DropDuplicates with keep="last"
DropDuplicatesKeepLast(df) ==
    IF Nrows(df) = 0 \/ df.columns = {} THEN Ok(df)
    ELSE IF "molecule_chembl_id" \notin df.columns THEN Raise("KeyError")
    ELSE Ok(Take(df, Positions(Nrows(df),
                 {i \in 1..Nrows(df) : \A j \in (i + 1)..Nrows(df) :
                    df.rows[j]["molecule_chembl_id"] # df.rows[i]["molecule_chembl_id"]}, 1)))

\* DropDuplicates that removes nothing
DropDuplicatesNothing(df) ==
    IF Nrows(df) = 0 \/ df.columns = {} THEN Ok(df)
    ELSE IF "molecule_chembl_id" \notin df.columns THEN Raise("KeyError")
    ELSE Ok(df)

\* df.drop_duplicates("molecule_chembl_id", keep="first"): an empty table is
\* returned as it is, before the column is looked up
DropDuplicates(df) ==
    IF Nrows(df) = 0 \/ df.columns = {} THEN Ok(df)
    ELSE IF "molecule_chembl_id" \notin df.columns THEN Raise("KeyError")
    ELSE Ok(Take(df, Positions(Nrows(df),
                 {i \in 1..Nrows(df) : \A j \in 1..(i - 1) :
                    df.rows[j]["molecule_chembl_id"] # df.rows[i]["molecule_chembl_id"]}, 1)))

\* ResetIndex as df.reindex(range(df.index.max() + 1)): every label up to the
\* largest gets a row, a removed one a row of missing values
ResetIndexReindex(df) ==
    LET n == IF Nrows(df) = 0 THEN 0
             ELSE 1 + CHOOSE m \in {df.index[k] : k \in 1..Nrows(df)} :
                          \A k \in 1..Nrows(df) : df.index[k] <= m
    IN [columns |-> df.columns,
        index |-> RangeIndex(n),
        rows |-> [i \in 1..n |->
                    IF \E k \in 1..Nrows(df) : df.index[k] = i - 1
                    THEN df.rows[CHOOSE k \in 1..Nrows(df) : df.index[k] = i - 1]
                    ELSE [c \in df.columns |-> NA]]]

\* df.reset_index(drop=True)
ResetIndex(df) == [df EXCEPT !.index = RangeIndex(Nrows(df))]

\* Preprocess with the duplicates deleted before the missing values and the
\* other units are
PreprocessDedupFirst(df, columns_to_float, drop_na, drop_duplicates, reset_index, standard_unit) ==
    LET s1 == IF columns_to_float.some THEN AsType(df, columns_to_float.val) ELSE Ok(df)
        s4 == IF drop_duplicates THEN DropDuplicates(s1.df) ELSE Ok(s1.df)
        c4 == <<Nrows(df)>> \o (IF drop_duplicates THEN <<Nrows(s4.df)>> ELSE <<>>)
        s2 == IF drop_na THEN DropNa(s4.df) ELSE s4.df
        c2 == c4 \o (IF drop_na THEN <<Nrows(s2)>> ELSE <<>>)
        units == standard_unit.some /\ standard_unit.val # "all"
        s3 == IF units THEN FilterUnit(s2, standard_unit.val) ELSE s2
        c3 == c2 \o (IF units THEN <<Nrows(s3)>> ELSE <<>>)
        s5 == IF reset_index THEN ResetIndex(s3) ELSE s3
    IN IF ~s1.ok THEN [res |-> s1, counts |-> <<Nrows(df)>>]
       ELSE IF ~s4.ok THEN [res |-> s4, counts |-> <<Nrows(df)>>]
       ELSE IF units /\ "standard_units" \notin s2.columns
       THEN [res |-> Raise("AssertionError"), counts |-> c2]
       ELSE [res |-> Ok(s5), counts |-> c3]

\* the whole function: [res, counts], res the returned table or the exception
\* that leaves the function, counts the numbers of samples reported: the
\* initial one, then one after each enabled step that removes rows
Preprocess(df, columns_to_float, drop_na, drop_duplicates, reset_index, standard_unit) ==
    LET s1 == IF columns_to_float.some THEN AsType(df, columns_to_float.val) ELSE Ok(df)
        s2 == IF drop_na THEN DropNa(s1.df) ELSE s1.df
        c2 == <<Nrows(df)>> \o (IF drop_na THEN <<Nrows(s2)>> ELSE <<>>)
        units == standard_unit.some /\ standard_unit.val # "all"
        s3 == IF units THEN FilterUnit(s2, standard_unit.val) ELSE s2
        c3 == c2 \o (IF units THEN <<Nrows(s3)>> ELSE <<>>)
        s4 == IF drop_duplicates THEN DropDuplicates(s3) ELSE Ok(s3)
        c4 == c3 \o (IF drop_duplicates THEN <<Nrows(s4.df)>> ELSE <<>>)
        s5 == IF reset_index THEN ResetIndex(s4.df) ELSE s4.df
    IN IF ~s1.ok THEN [res |-> s1, counts |-> <<Nrows(df)>>]
       ELSE IF units /\ "standard_units" \notin s2.columns
       THEN [res |-> Raise("AssertionError"), counts |-> c2]
       ELSE IF ~s4.ok THEN [res |-> s4, counts |-> c3]
       ELSE [res |-> Ok(s5), counts |-> c4]

\* all sequences over S of length at most n
RECURSIVE SeqsUpTo(_, _)
SeqsUpTo(S, n) ==
    IF n = 0 THEN {<<>>}
    ELSE LET shorter == SeqsUpTo(S, n - 1)
         IN shorter \cup {Append(s, x) : s \in shorter, x \in S}

Ids == {Str("CHEMBL1"), Str("CHEMBL2")}

\* the bioactivity records of the table cleaner's specification
CleanRecords ==
    {BioRecord(id, m[1], m[2]) :
        id \in Ids,
        m \in {<<Str("5.0"), Str("nM")>>, <<Str("7.0"), Str("nM")>>,
               <<Str("3.0"), Str("uM")>>, <<NA, Str("nM")>>}}
    \cup {BioRecord(Str("CHEMBL2"), Str("active"), Str("nM"))}

CleanArgs ==
    [columns_to_float : {None, Some({"standard_value"})},
     drop_na : BOOLEAN,
     drop_duplicates : BOOLEAN,
     reset_index : BOOLEAN,
     standard_unit : {None, Some("all"), Some("nM")}]

DefaultArgs ==
    [columns_to_float |-> None, drop_na |-> TRUE, drop_duplicates |-> TRUE,
     reset_index |-> TRUE, standard_unit |-> None]

InitClean ==
    /\ \E records \in SeqsUpTo(CleanRecords, MaxRows) :
          cleaned = [called |-> FALSE, df |-> FromRecords(records), args |-> DefaultArgs,
                     res |-> Raise(""), counts |-> <<>>]
    /\ disk = EmptyDisk(FALSE)
    /\ remote = [q \in QueryNames |-> [up |-> TRUE, records |-> <<>>]]
    /\ ncalls = 0
    /\ out = NoCall
    /\ prev = NoCall
    /\ flat = NoFlat
    /\ pipe = NoPipe

\* one call of preprocess_queried_dataset on the table
Clean(args) ==
    LET r == Preprocess(cleaned.df, args.columns_to_float, args.drop_na,
                        args.drop_duplicates, args.reset_index, args.standard_unit)
    IN /\ ~cleaned.called
       /\ cleaned' = [called |-> TRUE, df |-> cleaned.df, args |-> args,
                      res |-> r.res, counts |-> r.counts]
       /\ UNCHANGED <<disk, remote, ncalls, out, prev, flat, pipe>>

NextClean == \E args \in CleanArgs : Clean(args)

SpecClean == InitClean /\ [][NextClean]_vars

----------------------------------------------------------------------------
(* extract_smiles_from_molecular_representation                            *)

\* compounds["molecule_structures"]["canonical_smiles"]: only a mapping can be
\* subscripted by the key; None in the mapping is a missing value
SmilesOf(c) ==
    IF c.t = "dict"
    THEN [ok |-> TRUE, cell |-> IF c.v = NoneText THEN NA ELSE Str(c.v)]
    ELSE [ok |-> FALSE, cell |-> NA]

\* df.molecule_structures.apply(lambda x: ast.literal_eval(x))
EvalStructures(df) ==
    IF \E i \in 1..Nrows(df) : ~LiteralEval(df.rows[i]["molecule_structures"]).ok
    THEN Raise("ValueError")
    ELSE Ok([df EXCEPT !.rows =
                [i \in 1..Nrows(df) |->
                    [df.rows[i] EXCEPT !["molecule_structures"] = LiteralEval(@).cell]]])

\* the whole function: the returned table or the exception that leaves it
ExtractSmiles(df) ==
    LET parsed == IF df.rows[1]["molecule_structures"].t # "dict"
                  THEN EvalStructures(df) ELSE Ok(df)
        withSmiles ==
            [columns |-> (parsed.df.columns \ {"molecule_structures"}) \cup {"canonical_smiles"},
             index |-> parsed.df.index,
             rows |-> [i \in 1..Nrows(parsed.df) |->
                         [c \in (parsed.df.columns \ {"molecule_structures"}) \cup {"canonical_smiles"} |->
                             IF c = "canonical_smiles"
                             THEN SmilesOf(parsed.df.rows[i]["molecule_structures"]).cell
                             ELSE parsed.df.rows[i][c]]]]
    IN IF "molecule_structures" \notin df.columns THEN Raise("AssertionError")
       ELSE IF Nrows(df) = 0 THEN Raise("IndexError")
       ELSE IF ~parsed.ok THEN parsed
       ELSE IF \E i \in 1..Nrows(parsed.df) : ~SmilesOf(parsed.df.rows[i]["molecule_structures"]).ok
       THEN Raise("TypeError")
       ELSE Ok(DropNa(withSmiles))

\* the compound records of the structure flattener's specification: mappings,
\* texts of mappings and missing values
FlatRecords ==
    {CompoundRecord(id, st) :
        id \in Ids,
        st \in {Dict("CCO"), Dict(NoneText), Str(ReprDict("CCO")), Str(ReprDict(NoneText)), NA}}
    \cup {CompoundRecord(NA, Dict("CCN"))}

\* a table all of whose rows were removed
EmptyCompoundTable ==
    [columns |-> {"molecule_chembl_id", "molecule_structures"}, index |-> <<>>, rows |-> <<>>]

InitFlat ==
    /\ \E df \in {FromRecords(records) : records \in SeqsUpTo(FlatRecords, MaxFlatRows)}
                 \cup {EmptyCompoundTable} :
          flat = [called |-> FALSE, df |-> df, res |-> Raise("")]
    /\ disk = EmptyDisk(FALSE)
    /\ remote = [q \in QueryNames |-> [up |-> TRUE, records |-> <<>>]]
    /\ ncalls = 0
    /\ out = NoCall
    /\ prev = NoCall
    /\ cleaned = NoClean
    /\ pipe = NoPipe

\* one call of extract_smiles_from_molecular_representation on the table
Flatten ==
    /\ ~flat.called
    /\ flat' = [called |-> TRUE, df |-> flat.df, res |-> ExtractSmiles(flat.df)]
    /\ UNCHANGED <<disk, remote, ncalls, out, prev, cleaned, pipe>>

NextFlat == Flatten

SpecFlat == InitFlat /\ [][NextFlat]_vars

----------------------------------------------------------------------------
(* get_bioactivity_compound_data                                           *)

\* df[columns]
Project(df, columns) ==
    IF ~(columns \subseteq df.columns) THEN Raise("KeyError")
    ELSE Ok([columns |-> columns,
             index |-> df.index,
             rows |-> [i \in 1..Nrows(df) |-> [c \in columns |-> df.rows[i][c]]]])

RECURSIVE Flat(_)
Flat(ss) == IF ss = <<>> THEN <<>> ELSE Head(ss) \o Flat(Tail(ss))

\* the rows of an inner join: in the order of the left rows, each with every
\* right row of the same key
JoinRows(left, right, on, columns) ==
    Flat([i \in 1..Nrows(left) |->
            LET js == Positions(Nrows(right),
                                {j \in 1..Nrows(right) : right.rows[j][on] = left.rows[i][on]}, 1)
            IN [k \in 1..Len(js) |->
                   [c \in columns |-> IF c \in left.columns THEN left.rows[i][c]
                                      ELSE right.rows[js[k]][c]]]])

\* Merge with how="left": a left row without a right row is kept, the right
\* columns missing in it
MergeLeft(left, right, on) ==
    IF on \notin left.columns \/ on \notin right.columns THEN Raise("KeyError")
    ELSE LET columns == left.columns \cup right.columns
             rows == Flat([i \in 1..Nrows(left) |->
                        IF \E j \in 1..Nrows(right) : right.rows[j][on] = left.rows[i][on]
                        THEN JoinRows(Take(left, <<i>>), right, on, columns)
                        ELSE <<[c \in columns |-> IF c \in left.columns THEN left.rows[i][c]
                                                  ELSE NA]>>])
         IN Ok([columns |-> columns, index |-> RangeIndex(Len(rows)), rows |-> rows])

\* pd.merge(left, right, on=on): the inner join on the key
Merge(left, right, on) ==
    IF on \notin left.columns \/ on \notin right.columns THEN Raise("KeyError")
    ELSE LET columns == left.columns \cup right.columns
             rows == JoinRows(left, right, on, columns)
         IN Ok([columns |-> columns, index |-> RangeIndex(Len(rows)), rows |-> rows])

\* The function as it goes: [res, bioactivities_df, compounds_df, disk], res the
\* table the last statement yielded or the exception that leaves the function,
\* the other fields the two local tables and the storage.  A statement after an
\* exception does nothing.

\* retrieve_or_create_dataframe_from_query for the bioactivities
LoadBioactivities(dsk, bioactivity_query, target_name) ==
    LET r == RetrieveOrCreate(dsk, bioactivity_query, "bioactivities", target_name, TRUE)
    IN [res |-> r.res, bioactivities_df |-> r.res.df, compounds_df |-> NoTable,
        disk |-> r.disk]

Assigned(x, res, var) ==
    [x EXCEPT !.res = res, ![var] = IF res.ok THEN res.df ELSE @]

\* preprocess_queried_dataset(columns_to_float=["standard_value"], standard_unit="nM")
CleanBioactivities(x) ==
    IF ~x.res.ok THEN x
    ELSE Assigned(x, Preprocess(x.bioactivities_df, Some({"standard_value"}),
                                TRUE, TRUE, TRUE, Some("nM")).res, "bioactivities_df")

StoredAt(x, r) ==
    [Assigned(x, r.res, "compounds_df") EXCEPT !.disk = r.disk]

\* retrieve_or_create_dataframe_from_query for the compounds
LoadCompounds(x, compound_query, target_name) ==
    IF ~x.res.ok THEN x
    ELSE StoredAt(x, RetrieveOrCreate(x.disk, compound_query, "compounds", target_name, TRUE))

\* preprocess_queried_dataset with its defaults
CleanCompounds(x) ==
    IF ~x.res.ok THEN x
    ELSE Assigned(x, Preprocess(x.compounds_df, None, TRUE, TRUE, TRUE, None).res,
                  "compounds_df")

\* extract_smiles_from_molecular_representation
FlattenCompounds(x) ==
    IF ~x.res.ok THEN x
    ELSE Assigned(x, ExtractSmiles(x.compounds_df), "compounds_df")

Merged(p, right) ==
    IF p.ok THEN Merge(p.df, right, "molecule_chembl_id") ELSE p

Reindexed(m) == IF m.ok THEN Ok(ResetIndex(m.df)) ELSE m

\* pd.merge of the projected bioactivities with the compounds, then reset_index
MergeTables(x) ==
    IF ~x.res.ok THEN x
    ELSE [x EXCEPT !.res =
            Reindexed(Merged(Project(x.bioactivities_df,
                                     {"molecule_chembl_id", "standard_value", "standard_units"}),
                             x.compounds_df))]

\* the whole function
GetBioactivityCompoundData(dsk, bioactivity_query, compound_query, target_name) ==
    MergeTables(
      FlattenCompounds(
        CleanCompounds(
          LoadCompounds(
            CleanBioactivities(LoadBioactivities(dsk, bioactivity_query, target_name)),
            compound_query, target_name))))

\* the records of the pipeline's specification
PipeBioRecords ==
    {BioRecord(Str("CHEMBL1"), m[1], m[2]) :
        m \in {<<Str("5.0"), Str("nM")>>, <<Str("7.0"), Str("nM")>>,
               <<Str("3.0"), Str("uM")>>, <<NA, Str("nM")>>}}
    \cup {BioRecord(Str("CHEMBL2"), m[1], m[2]) :
        m \in {<<Str("5.0"), Str("nM")>>, <<Str("3.0"), Str("uM")>>}}

PipeCompoundRecords ==
    {CompoundRecord(Str("CHEMBL1"), st) : st \in {Dict("CCO"), Dict(NoneText), NA}}
    \cup {CompoundRecord(Str("CHEMBL2"), st) : st \in {Dict("CCN"), Dict(NoneText), NA}}

InitPipe ==
    /\ \E bio \in SeqsUpTo(PipeBioRecords, MaxRecords) :
       \E comp \in SeqsUpTo(PipeCompoundRecords, MaxRecords) :
          remote = [q \in QueryNames |->
                       [up |-> TRUE, records |-> IF q = "bioactivities" THEN bio ELSE comp]]
    /\ disk = EmptyDisk(FALSE)
    /\ ncalls = 0
    /\ out = NoCall
    /\ prev = NoCall
    /\ cleaned = NoClean
    /\ flat = NoFlat
    /\ pipe = [called |-> FALSE, cached |-> FALSE, res |-> Raise(""),
               bioactivities_df |-> NoTable, compounds_df |-> NoTable]

\* one call of get_bioactivity_compound_data; cached tells whether both tables
\* came from the cache files
GetData(target_name) ==
    LET r == GetBioactivityCompoundData(disk, remote["bioactivities"], remote["compounds"],
                                        target_name)
    IN /\ ~pipe.cached
       /\ pipe' = [called |-> TRUE,
                   cached |-> \A q \in QueryNames :
                                 FileAt(disk, DataFilePath(target_name, q)).kind # "absent",
                   res |-> r.res,
                   bioactivities_df |-> r.bioactivities_df,
                   compounds_df |-> r.compounds_df]
       /\ disk' = r.disk
       /\ UNCHANGED <<remote, ncalls, out, prev, cleaned, flat>>

NextPipe == \E t \in TargetNames : GetData(t)

SpecPipe == InitPipe /\ [][NextPipe]_vars

----------------------------------------------------------------------------
(* Claims about the cache loader.                                          *)

\* the last two calls had the same arguments, saw the same remote collaborator
\* and both returned a table
SameCallTwice ==
    /\ prev.n >= 1
    /\ out.query_name = prev.query_name
    /\ out.save_df = prev.save_df
    /\ out.snapshot = prev.snapshot
    /\ prev.res.ok
    /\ out.res.ok

\* what a table reads back as after to_csv and read_csv: a mapping as its text,
\* text as a number when its whole column is numbers or missing, the rest as is;
\* the row labels are renumbered from 0
IsNumberCell(c) == c.t = "num" \/ (c.t = "str" /\ IsNumericText(c.v))

IsIntCell(c) == c.t \in {"num", "str"} /\ c.v \in IntTexts

ReadBackCell(df, col, c) ==
    CASE c.t = "na" -> NA
      [] c.t = "dict" -> Str(ReprDict(c.v))
      [] \A i \in 1..Nrows(df) : IsIntCell(df.rows[i][col]) -> Num(c.v)
      [] \A i \in 1..Nrows(df) : IsNA(df.rows[i][col]) \/ IsNumberCell(df.rows[i][col])
            -> Num(FloatOf[c.v])
      [] OTHER -> c

ReadBack(df) ==
    [columns |-> df.columns,
     index |-> RangeIndex(Nrows(df)),
     rows |-> [i \in 1..Nrows(df) |-> [c \in df.columns |-> ReadBackCell(df, c, df.rows[i][c])]]]

HasMapping(df) == \E i \in 1..Nrows(df) : \E c \in df.columns : df.rows[i][c].t = "dict"

\* C1, as stated: two calls with identical arguments and an unchanged remote
\* collaborator return identical tables and the second call does not invoke the
\* remote collaborator, whatever the save flag and the records.
C1_Original == SameCallTwice => (out.res.df = prev.res.df /\ ~out.invoked)

\* C1, amended: the second call invokes the remote collaborator exactly when the
\* first one did with save disabled; it returns the first call's table, read
\* back from the CSV file when the first call fetched and saved it, so that the
\* two tables differ whenever the fetched records hold a nested mapping.
C1_Amended ==
    SameCallTwice =>
        /\ out.invoked = (prev.invoked /\ ~prev.save_df)
        /\ out.res.df = IF prev.invoked /\ prev.save_df
                        THEN ReadBack(prev.res.df) ELSE prev.res.df
        /\ (prev.invoked /\ prev.save_df /\ HasMapping(prev.res.df))
              => out.res.df # prev.res.df

C1_Witness ==
    /\ SameCallTwice
    /\ prev.invoked /\ prev.save_df
    /\ ~out.invoked
    /\ HasMapping(prev.res.df)
    /\ out.res.df # prev.res.df

IsCallOf(query_name, target_name) ==
    out'.n # out.n /\ out'.query_name = query_name

\* C2: a cache file appears only by a successful fetch with save enabled, which
\* writes the fetched table; once it exists no step changes or removes it, and
\* every call for its pair returns the table read from it without invoking the
\* remote collaborator, whatever the remote's records are by then.
C2_CacheNeverRefreshed ==
    [][\A q \in QueryNames, t \in TargetNames :
         LET before == FileAt(disk, DataFilePath(t, q))
             after == FileAt(disk', DataFilePath(t, q))
             fetchedAndSaved == /\ IsCallOf(q, t) /\ out'.save_df
                                /\ out'.invoked /\ out'.res.ok
         IN /\ before.kind = "absent" =>
                  /\ (after.kind # "absent") = fetchedAndSaved
                  /\ fetchedAndSaved => after = ToCsv(out'.res.df)
            /\ before.kind # "absent" =>
                  /\ after = before
                  /\ IsCallOf(q, t) =>
                        /\ ~out'.invoked
                        /\ out'.res.ok
                        /\ out'.res = LoadSaved(before)]_vars

\* a call answered from the cache although the remote collaborator is up and
\* now returns other records
C2_Witness ==
    /\ out.n >= 2
    /\ out.exists /\ ~out.invoked /\ out.res.ok
    /\ remote[out.query_name].up
    /\ out.snapshot = remote[out.query_name]
    /\ out.res.df # ReadBack(FromRecords(remote[out.query_name].records))

\* C9: a missing cache file is never reported and takes the fetch path; any
\* other failure to read the file leaves the function as it is, without a
\* fetch and without touching the storage; a failing remote query leaves the
\* function as it is and creates no file, so that the next call for the pair
\* fetches again.
C9_OnlyFileNotFoundHandled ==
    [][out'.n # out.n =>
         LET q == out'.query_name
             before == FileAt(disk, DataFilePath(CHOOSE t \in TargetNames : TRUE, q))
             read == LoadSaved(before)
         IN /\ out'.res.error # "FileNotFoundError"
            /\ before.kind = "absent" => out'.invoked
            /\ (before.kind # "absent" /\ ~read.ok) =>
                  /\ ~out'.invoked
                  /\ out'.res = read
                  /\ disk' = disk
            /\ (out'.invoked /\ ~remote[q].up) =>
                  /\ out'.res = Raise("RemoteError")
                  /\ disk' = disk
            /\ (out.n >= 1 /\ out.invoked /\ ~out.res.ok /\ out.query_name = q) =>
                  out'.invoked]_vars

\* a remote failure followed by a call for the same pair that fetches, after
\* which the storage still holds a file that cannot be read
C9_Witness ==
    /\ prev.n >= 1
    /\ prev.res.error = "RemoteError"
    /\ out.query_name = prev.query_name
    /\ out.invoked /\ out.res.ok
    /\ \E p \in Paths : FileAt(disk, p).kind # "absent" /\ ~LoadSaved(FileAt(disk, p)).ok

----------------------------------------------------------------------------
(* Claims about the table cleaner.                                         *)

CleanReturned == cleaned.called /\ cleaned.res.ok

CleanIn == cleaned.df
CleanOut == cleaned.res.df

UnitWanted == cleaned.args.standard_unit.some /\ cleaned.args.standard_unit.val # "all"

IdOf(row) == row["molecule_chembl_id"]

\* an input row as the output shows it: its listed columns as floats
AsOutput(row) ==
    IF cleaned.args.columns_to_float.some
    THEN [c \in DOMAIN row |-> IF c \in cleaned.args.columns_to_float.val
                               THEN ToFloat(row[c]).cell ELSE row[c]]
    ELSE row

\* input row i is not removed for a missing value, nor for its unit
PassesNa(i) == cleaned.args.drop_na => ~RowHasNA(CleanIn.rows[i])
PassesUnit(i) ==
    UnitWanted => CleanIn.rows[i]["standard_units"] = Str(cleaned.args.standard_unit.val)
Passes(i) == PassesNa(i) /\ PassesUnit(i)

\* input row i is the first of its identifier among the rows that pass
FirstPassing(i) ==
    /\ Passes(i)
    /\ \A j \in 1..(i - 1) : Passes(j) => IdOf(CleanIn.rows[j]) # IdOf(CleanIn.rows[i])

\* output row k is input row i
IsInputRow(k, i) ==
    /\ CleanOut.rows[k] = AsOutput(CleanIn.rows[i])
    /\ ~cleaned.args.reset_index => CleanOut.index[k] = CleanIn.index[i]

NonIncreasing(counts) == \A k \in 1..(Len(counts) - 1) : counts[k + 1] <= counts[k]

\* C3: whenever the table cleaner returns, whatever its flags, the output has
\* at most as many rows as the input, and the number of rows never grows from
\* one step to the next, nor from the last step to the returned table.
C3_RowCountNeverGrows ==
    CleanReturned =>
        /\ Nrows(CleanOut) <= Nrows(CleanIn)
        /\ cleaned.counts[1] = Nrows(CleanIn)
        /\ NonIncreasing(cleaned.counts \o <<Nrows(CleanOut)>>)

\* all three removing steps ran, rows were removed and rows are left
C3_Witness ==
    /\ CleanReturned
    /\ Len(cleaned.counts) = 4
    /\ cleaned.counts[4] < cleaned.counts[2]
    /\ cleaned.counts[2] < cleaned.counts[1]
    /\ Nrows(CleanOut) = cleaned.counts[4]
    /\ Nrows(CleanOut) >= 1

\* C4, as stated: with deduplication enabled the output holds exactly one row
\* for each identifier value of the input table, and it is the earliest row of
\* the input with that identifier.
C4_Original ==
    (CleanReturned /\ cleaned.args.drop_duplicates) =>
        \A i \in 1..Nrows(CleanIn) :
            (\A j \in 1..(i - 1) : IdOf(CleanIn.rows[j]) # IdOf(CleanIn.rows[i])) =>
                /\ \E k \in 1..Nrows(CleanOut) : IsInputRow(k, i)
                /\ \A k, l \in 1..Nrows(CleanOut) :
                      (/\ IdOf(CleanOut.rows[k]) = IdOf(CleanIn.rows[i])
                       /\ IdOf(CleanOut.rows[l]) = IdOf(CleanIn.rows[i])) => k = l

\* C4, amended: with deduplication enabled the output holds one row for each
\* identifier that reaches the deduplication step, no two rows share an
\* identifier, and the row kept is the earliest, in input order, of the rows
\* with that identifier that reach the step, that is of those that enabled
\* missing-value removal and unit filtering leave.
C4_FirstOccurrenceKept ==
    (CleanReturned /\ cleaned.args.drop_duplicates) =>
        /\ \A k, l \in 1..Nrows(CleanOut) :
              IdOf(CleanOut.rows[k]) = IdOf(CleanOut.rows[l]) => k = l
        /\ \A k \in 1..Nrows(CleanOut) :
              \E i \in 1..Nrows(CleanIn) : FirstPassing(i) /\ IsInputRow(k, i)
        /\ \A i \in 1..Nrows(CleanIn) :
              Passes(i) => \E k \in 1..Nrows(CleanOut) :
                              IdOf(CleanOut.rows[k]) = IdOf(CleanIn.rows[i])

\* two rows of one identifier with different values reach the deduplication
\* step, and the output shows the earlier one
C4_Witness ==
    /\ CleanReturned /\ cleaned.args.drop_duplicates /\ ~cleaned.args.reset_index
    /\ \E i, j \in 1..Nrows(CleanIn) :
          /\ i < j
          /\ FirstPassing(i) /\ Passes(j)
          /\ IdOf(CleanIn.rows[i]) = IdOf(CleanIn.rows[j])
          /\ CleanIn.rows[i] # CleanIn.rows[j]
          /\ \E k \in 1..Nrows(CleanOut) : IsInputRow(k, i)

\* C5: with a unit given that is not "all", every output row has that unit and
\* every input row with that unit is kept unless missing-value removal or
\* deduplication removes it; with no unit, or "all", no row is removed for its
\* unit.
C5_UnitFilter ==
    CleanReturned =>
        /\ UnitWanted =>
              \A k \in 1..Nrows(CleanOut) :
                  CleanOut.rows[k]["standard_units"] = Str(cleaned.args.standard_unit.val)
        /\ \A i \in 1..Nrows(CleanIn) :
              (/\ UnitWanted => CleanIn.rows[i]["standard_units"] = Str(cleaned.args.standard_unit.val)
               /\ PassesNa(i)
               /\ cleaned.args.drop_duplicates =>
                     \A j \in 1..(i - 1) :
                        (PassesNa(j) /\ PassesUnit(j)) => IdOf(CleanIn.rows[j]) # IdOf(CleanIn.rows[i]))
              => \E k \in 1..Nrows(CleanOut) : IsInputRow(k, i)

\* a row of another unit is removed for its unit alone, and a row of the unit
\* asked for is kept
C5_Witness ==
    /\ CleanReturned /\ UnitWanted
    /\ Nrows(CleanOut) >= 1
    /\ \E i \in 1..Nrows(CleanIn) :
          /\ PassesNa(i) /\ ~PassesUnit(i)
          /\ \A j \in 1..Nrows(CleanIn) : j # i => IdOf(CleanIn.rows[j]) # IdOf(CleanIn.rows[i])

AllSteps ==
    /\ cleaned.args.columns_to_float = Some({"standard_value"})
    /\ cleaned.args.drop_na
    /\ cleaned.args.drop_duplicates
    /\ cleaned.args.reset_index
    /\ UnitWanted

Scenario ==
    <<BioRecord(Str("CHEMBL1"), Str("5.0"), Str("nM")),
      BioRecord(Str("CHEMBL1"), Str("7.0"), Str("nM")),
      BioRecord(Str("CHEMBL2"), Str("3.0"), Str("uM"))>>

\* C10: with every step enabled the output is, in input order and labelled from
\* 0, the coerced input rows that have no missing value, have the unit asked
\* for and are the first such row of their identifier; the scenario's three
\* rows yield the single row CHEMBL1, 5.0, nM.
C10_StepOrder ==
    (CleanReturned /\ AllSteps) =>
        /\ LET ps == Positions(Nrows(CleanIn), {i \in 1..Nrows(CleanIn) : FirstPassing(i)}, 1)
           IN /\ CleanOut.columns = CleanIn.columns
              /\ CleanOut.index = RangeIndex(Len(ps))
              /\ CleanOut.rows = [k \in 1..Len(ps) |-> AsOutput(CleanIn.rows[ps[k]])]
        /\ CleanIn = FromRecords(Scenario) =>
              CleanOut.rows = <<BioRecord(Str("CHEMBL1"), Num("5.0"), Str("nM"))>>

\* an identifier whose first row is removed by a filter survives by a later row
C10_Witness ==
    /\ CleanReturned /\ AllSteps
    /\ \E i, j \in 1..Nrows(CleanIn) :
          /\ i < j
          /\ IdOf(CleanIn.rows[i]) = IdOf(CleanIn.rows[j])
          /\ ~Passes(i)
          /\ FirstPassing(j)
          /\ \E k \in 1..Nrows(CleanOut) : CleanOut.rows[k] = AsOutput(CleanIn.rows[j])

----------------------------------------------------------------------------
(* Claims about the structure flattener.                                   *)

FlatIn == flat.df
FlatOut == flat.res.df

StructureOf(row) == row["molecule_structures"]

\* every row holds a mapping, or every row holds the text of one
OneRepresentation(df) ==
    \/ \A i \in 1..Nrows(df) : StructureOf(df.rows[i]).t = "dict"
    \/ \A i \in 1..Nrows(df) : LiteralEval(StructureOf(df.rows[i])).ok

\* the canonical_smiles field of a row's mapping, given as a mapping or as text
NestedSmiles(row) ==
    SmilesOf(IF StructureOf(row).t = "dict" THEN StructureOf(row)
             ELSE LiteralEval(StructureOf(row)).cell).cell

\* an input row as the claim describes its output row
Flattened(row) ==
    [c \in (DOMAIN row \ {"molecule_structures"}) \cup {"canonical_smiles"} |->
        IF c = "canonical_smiles" THEN NestedSmiles(row) ELSE row[c]]

\* C8, as stated: for a table with a molecule_structures column (its rows in
\* one representation) the flattener returns a table without that column,
\* with a canonical_smiles column holding each row's nested field and every
\* other column kept, from which exactly the rows with a missing
\* canonical_smiles are dropped.
C8_Original ==
    (flat.called /\ "molecule_structures" \in FlatIn.columns /\ OneRepresentation(FlatIn)) =>
        /\ flat.res.ok
        /\ FlatOut.columns = (FlatIn.columns \ {"molecule_structures"}) \cup {"canonical_smiles"}
        /\ LET ps == Positions(Nrows(FlatIn),
                               {i \in 1..Nrows(FlatIn) : ~IsNA(NestedSmiles(FlatIn.rows[i]))}, 1)
           IN FlatOut.rows = [k \in 1..Len(ps) |-> Flattened(FlatIn.rows[ps[k]])]
        /\ Nrows(FlatOut) <= Nrows(FlatIn)

----------------------------------------------------------------------------
(* Claims about the pipeline.                                              *)

PipeReturned == pipe.called /\ pipe.res.ok

MergedDf == pipe.res.df

\* C6: every row of the merged table has an identifier that both the cleaned
\* bioactivity table and the cleaned, flattened compound table hold; its
\* standard_value and standard_units are those of a bioactivity row with the
\* identifier and its other columns those of a compound row with it; the
\* columns are the compound table's plus standard_value and standard_units.
C6_MergedRowsFromBoth ==
    PipeReturned =>
        /\ MergedDf.columns = pipe.compounds_df.columns \cup {"standard_value", "standard_units"}
        /\ \A k \in 1..Nrows(MergedDf) :
              /\ \E i \in 1..Nrows(pipe.bioactivities_df) :
                    \A c \in {"molecule_chembl_id", "standard_value", "standard_units"} :
                        MergedDf.rows[k][c] = pipe.bioactivities_df.rows[i][c]
              /\ \E j \in 1..Nrows(pipe.compounds_df) :
                    \A c \in pipe.compounds_df.columns :
                        MergedDf.rows[k][c] = pipe.compounds_df.rows[j][c]

\* a merged table with a row, while a cleaned bioactivity row has no compound
\* and is left out
C6_Witness ==
    /\ PipeReturned
    /\ Nrows(MergedDf) >= 1
    /\ \E i \in 1..Nrows(pipe.bioactivities_df) :
          \A k \in 1..Nrows(MergedDf) :
              IdOf(MergedDf.rows[k]) # IdOf(pipe.bioactivities_df.rows[i])

\* C7: the merged table has no two rows with the same identifier and at most
\* as many rows as the smaller of the two cleaned tables, whatever the raw
\* records.
C7_MergedUniqueAndBounded ==
    PipeReturned =>
        /\ \A k, l \in 1..Nrows(MergedDf) :
              IdOf(MergedDf.rows[k]) = IdOf(MergedDf.rows[l]) => k = l
        /\ Nrows(MergedDf) <= Nrows(pipe.bioactivities_df)
        /\ Nrows(MergedDf) <= Nrows(pipe.compounds_df)

HasDuplicateId(records) ==
    \E i, j \in 1..Len(records) : i < j /\ IdOf(records[i]) = IdOf(records[j])

\* both raw record sets hold an identifier twice and the merged table has its
\* row
C7_Witness ==
    /\ PipeReturned
    /\ Nrows(MergedDf) >= 1
    /\ HasDuplicateId(remote["bioactivities"].records)
    /\ HasDuplicateId(remote["compounds"].records)

=============================================================================
